---- MODULE Spec2Model ----
(***************************************************************************)
(* Model of the GDB "whereis" command of src/checkaddr.py.  The "lfd"       *)
(* command of src/lfd.py keeps no state and shares none with whereis; it   *)
(* is not part of the model.                                               *)
(*                                                                         *)
(* Text is modelled as sequences of one-character strings, so that the     *)
(* parsing (str.split, str.strip, int(x, 16), int(x, 0)) and the           *)
(* formatting ({:x}, {:d}, {:s}) of the code are computed, not assumed.    *)
(* The alphabet of the modelled texts is: the hexadecimal digits in lower  *)
(* case, '-', ' ', newline, 'x', 'o', 'b', '&', ':' and letters.  Signs,    *)
(* underscores and upper-case digits, which Python's int() also accepts,   *)
(* do not occur in the texts the model draws.                              *)
(***************************************************************************)
EXTENDS Integers, Sequences, FiniteSets

\* Bounds of the model.
MaxLines == 2   \* lines of /proc/<pid>/maps
MaxArgs == 2    \* tokens of one whereis command line

VARIABLES
    maps,       \* environment: the text lines of /proc/<pid>/maps of the inferior
    proc_map,   \* self.proc_map: sequence of ProcMapsStruct objects
    cur_proc,   \* invoke's cur_proc (line 95): <<>> while not assigned, else <<inferior>>
    f_lines,    \* read_procmaps's f.readlines() (line 66): <<>> while no file was
                \* read, else <<lines>>
    args,       \* invoke's args (line 99), <<>> while not assigned
    from_tty,   \* the from_tty tested at line 100, FALSE while not tested
    out,        \* the print calls of the command, in order
    sym_calls,  \* the names the command passed to gdb.lookup_symbol, in order
    status      \* "prompt" at gdb's prompt; after invoke ran: "returned", or the
                \* name of the exception that left it

vars == <<maps, proc_map, cur_proc, f_lines, args, from_tty, out, sym_calls, status>>

----------------------------------------------------------------------------
\* Text helpers: Python's str and int operations on sequences of characters.

HexDigits == <<"0","1","2","3","4","5","6","7","8","9","a","b","c","d","e","f">>

Whitespace == {" ", "\n"}

IsDigit(c, base) == \E i \in 1..base : HexDigits[i] = c

DigitVal(c) == (CHOOSE i \in 1..Len(HexDigits) : HexDigits[i] = c) - 1

RECURSIVE DigitsVal(_, _)
DigitsVal(s, base) ==
    IF s = <<>> THEN 0
    ELSE DigitsVal(SubSeq(s, 1, Len(s) - 1), base) * base + DigitVal(s[Len(s)])

AllDigits(s, base) == Len(s) > 0 /\ \A i \in 1..Len(s) : IsDigit(s[i], base)

HasPrefix(s, p) == Len(s) >= Len(p) /\ SubSeq(s, 1, Len(p)) = p

Drop(s, n) == SubSeq(s, n + 1, Len(s))

\* int(s, base) for base 16: an optional "0x" prefix, then hexadecimal digits.
\* The result is [exc |-> "none", val |-> n] or [exc |-> "ValueError", val |-> 0].
PyInt16(s) ==
    LET body == IF HasPrefix(s, <<"0","x">>) THEN Drop(s, 2) ELSE s
    IN  IF AllDigits(body, 16)
        THEN [exc |-> "none", val |-> DigitsVal(body, 16)]
        ELSE [exc |-> "ValueError", val |-> 0]

\* int(s, 0): the base is taken from the prefix (0x, 0o, 0b); without a prefix the
\* literal is decimal and may not start with 0 unless it is all zeros (Python 3;
\* Python 2 reads such a literal as octal, and no token of TokenSet is one).
PyInt0(s) ==
    LET based(body, base) ==
            IF AllDigits(body, base)
            THEN [exc |-> "none", val |-> DigitsVal(body, base)]
            ELSE [exc |-> "ValueError", val |-> 0]
    IN  IF HasPrefix(s, <<"0","x">>) THEN based(Drop(s, 2), 16)
        ELSE IF HasPrefix(s, <<"0","o">>) THEN based(Drop(s, 2), 8)
        ELSE IF HasPrefix(s, <<"0","b">>) THEN based(Drop(s, 2), 2)
        ELSE IF HasPrefix(s, <<"0">>) /\ \E i \in 1..Len(s) : s[i] # "0"
             THEN [exc |-> "ValueError", val |-> 0]
        ELSE based(s, 10)

\* "{:x}".format(n) for base 16 and "{:d}".format(n) for base 10.
RECURSIVE FormatInt(_, _)
FormatInt(n, base) ==
    IF n < 0 THEN <<"-">> \o FormatInt(-n, base)
    ELSE IF n < base THEN <<HexDigits[n + 1]>>
    ELSE FormatInt(n \div base, base) \o <<HexDigits[(n % base) + 1]>>

\* s.split(sep) for a one-character separator.
RECURSIVE Split(_, _)
Split(s, sep) ==
    IF \A i \in 1..Len(s) : s[i] # sep THEN <<s>>
    ELSE LET i == CHOOSE k \in 1..Len(s) :
                      s[k] = sep /\ \A j \in 1..(k - 1) : s[j] # sep
         IN  <<SubSeq(s, 1, i - 1)>> \o Split(Drop(s, i), sep)

\* s.strip()
RECURSIVE Strip(_)
Strip(s) ==
    IF s = <<>> THEN s
    ELSE IF s[1] \in Whitespace THEN Strip(Drop(s, 1))
    ELSE IF s[Len(s)] \in Whitespace THEN Strip(SubSeq(s, 1, Len(s) - 1))
    ELSE s

\* str(None)
NoneStr == <<"N","o","n","e">>

----------------------------------------------------------------------------
\* class ProcMapsStruct

\* ProcMapsStruct.__init__(line).  The statements run in source order, so the
\* first one that raises decides the exception: line.split(' ')[1] raises
\* IndexError on a line without a space, addrs.split('-')[1] raises IndexError
\* on an address field without a dash, int(.., 16) raises ValueError.
ProcMapsStruct(line) ==
    LET fields == Split(line, " ")
        addrs  == fields[1]
        halves == Split(addrs, "-")
        start  == PyInt16(halves[1])
        end    == PyInt16(halves[2])
        failed(e) == [exc |-> e, line |-> <<>>, perms |-> <<>>, name |-> <<>>,
                      start |-> 0, end |-> 0]
    IN  IF Len(fields) < 2 THEN failed("IndexError")
        ELSE IF start.exc # "none" THEN failed(start.exc)
        ELSE IF Len(halves) < 2 THEN failed("IndexError")
        ELSE IF end.exc # "none" THEN failed(end.exc)
        ELSE [exc |-> "none", line |-> Strip(line), perms |-> fields[2],
              name |-> fields[Len(fields)], start |-> start.val, end |-> end.val]

\* ProcMapsStruct.__str__
EntryStr(ent) ==
    ent.line \o <<" ","(","s","i","z","e",":"," ">>
             \o FormatInt(ent.end - ent.start, 10)
             \o <<" ","B","y","t","e","s",")">>

\* Faulty variant of within_range: the end address taken as inside the entry.
within_range_inclusive(ent, addr) == addr >= ent.start /\ addr <= ent.end

\* ProcMapsStruct.within_range
within_range(ent, addr) == addr >= ent.start /\ addr < ent.end

\* Faulty variant of offset: the distance to the end of the entry.
offset_from_end(ent, addr) == ent.end - addr

\* ProcMapsStruct.offset
offset(ent, addr) == addr - ent.start

----------------------------------------------------------------------------
\* class CheckAddress

\* find_containing_procentry: next() of the generator over self.proc_map.
\* None is <<>>, a found entry x is <<x>>.
RECURSIVE find_containing_procentry(_, _)
find_containing_procentry(pm, addr) ==
    IF pm = <<>> THEN <<>>
    ELSE IF within_range(Head(pm), addr) THEN <<Head(pm)>>
    ELSE find_containing_procentry(Tail(pm), addr)

\* [ProcMapsStruct(line) for line in lines]
RECURSIVE ParseLines(_)
ParseLines(lines) ==
    IF lines = <<>> THEN <<>>
    ELSE <<ProcMapsStruct(Head(lines))>> \o ParseLines(Tail(lines))

\* Faulty variant of read_procmaps: an index that is already filled is kept, the file is
\* parsed only into an empty one.
read_procmaps_cached(old, lines) ==
    LET ents == ParseLines(lines)
        bad  == {i \in 1..Len(lines) : ents[i].exc # "none"}
    IN  IF old # <<>> THEN [exc |-> "none", proc_map |-> old]
        ELSE IF bad = {} THEN [exc |-> "none", proc_map |-> ents]
        ELSE [exc |-> ents[CHOOSE i \in bad : \A j \in bad : i <= j].exc,
              proc_map |-> old]

\* Faulty variant of read_procmaps: the entries are appended to self.proc_map one by one,
\* so the lines before the failing one are in the index when the exception leaves.
read_procmaps_partial(old, lines) ==
    LET ents == ParseLines(lines)
        bad  == {i \in 1..Len(lines) : ents[i].exc # "none"}
        stop == CHOOSE i \in bad : \A j \in bad : i <= j
    IN  IF bad = {} THEN [exc |-> "none", proc_map |-> ents]
        ELSE [exc |-> ents[stop].exc, proc_map |-> SubSeq(ents, 1, stop - 1)]

\* read_procmaps: the list comprehension over f.readlines().  The assignment to
\* self.proc_map happens only when every constructor returned; otherwise the
\* exception of the first failing line propagates and self.proc_map keeps its
\* old value.  old is the value of self.proc_map before the call.
read_procmaps(old, lines) ==
    LET ents == ParseLines(lines)
        bad  == {i \in 1..Len(lines) : ents[i].exc # "none"}
    IN  IF bad = {}
        THEN [exc |-> "none", proc_map |-> ents]
        ELSE [exc |-> ents[CHOOSE i \in bad : \A j \in bad : i <= j].exc,
              proc_map |-> old]

----------------------------------------------------------------------------
\* The host debugger's symbol service, as the fixed symbol table of one inferior.
\* "f" is a function at address 20 and "d" an int variable at address 1; no other
\* name is a symbol, and "$" is the only other text gdb.parse_and_eval
\* evaluates (to the value 2).

SymFn == <<"f">>
SymVar == <<"d">>
SymExpr == <<"$">>
SymUnknown == <<"u">>

\* gdb.lookup_symbol(symname)[0]: code "None" stands for sym is None.
\* address is str(sym.value(frame).address), value is str(sym.value().cast(long)).
lookup_symbol(symname) ==
    IF symname = SymFn
    THEN [code |-> "TYPE_CODE_FUNC", address |-> <<"0","x","1","4">>, value |-> <<"2","0">>]
    ELSE IF symname = SymVar
    THEN [code |-> "TYPE_CODE_INT", address |-> <<"0","x","1">>, value |-> <<"7">>]
    ELSE [code |-> "None", address |-> NoneStr, value |-> NoneStr]

\* str(gdb.parse_and_eval(symname)), or the gdb.error it raises.
parse_and_eval(symname) ==
    IF symname = SymExpr THEN [exc |-> "none", str |-> <<"2">>]
    ELSE [exc |-> "gdb.error", str |-> <<>>]

DataTypeCodes == {"TYPE_CODE_STRUCT", "TYPE_CODE_INT", "TYPE_CODE_FLT",
                  "TYPE_CODE_CHAR", "TYPE_CODE_PTR"}

\* get_symbol_addr(symname): the (str, address) tuple as s1, s2, or the exception.
get_symbol_addr(symname) ==
    LET sym == lookup_symbol(symname)
        val == parse_and_eval(symname)
    IN  IF sym.code = "None"
        THEN [exc |-> val.exc, s1 |-> symname, s2 |-> val.str]
        ELSE IF sym.code \in DataTypeCodes
        THEN [exc |-> "none", s1 |-> <<"&">> \o symname, s2 |-> sym.address]
        ELSE IF sym.code = "TYPE_CODE_FUNC"
        THEN [exc |-> "none", s1 |-> <<"&">> \o symname, s2 |-> sym.value]
        ELSE [exc |-> "none", s1 |-> symname, s2 |-> <<"0">>]

\* One print call: the format string of the source and its rendered arguments.
FmtEntry == "{0:s}"
FmtLabel == "{0:s}:"
FmtFound == "0x{0:x}, Offset: 0x{1:x}:\n{2:s}"
FmtNotFound == "0x{0:x}, Offset: None:\n{1:s}"

PrintCall(fmt, rendered) == [fmt |-> fmt, a |-> rendered]

\* print_procmaps
print_procmaps(pm) == [i \in 1..Len(pm) |-> PrintCall(FmtEntry, <<EntryStr(pm[i])>>)]

\* Faulty variant of ResolveToken: the symbol service is asked first, the numeral parse
\* is the fallback.
ResolveToken_symbol_first(a) ==
    LET n   == PyInt0(a)
        sym == get_symbol_addr(a)
        n2  == PyInt0(sym.s2)
    IN  IF sym.exc = "none" /\ n2.exc = "none"
        THEN [exc |-> "none", addr |-> n2.val, calls |-> <<a>>,
              prints |-> <<PrintCall(FmtLabel, <<sym.s1>>)>>]
        ELSE IF n.exc = "none"
        THEN [exc |-> "none", addr |-> n.val, calls |-> <<a>>, prints |-> <<>>]
        ELSE [exc |-> IF sym.exc # "none" THEN sym.exc ELSE n2.exc,
              addr |-> 0, calls |-> <<a>>, prints |-> <<>>]

\* invoke, lines 104-111: the address of token a.  calls are the names handed to
\* the symbol service, prints the print calls made.  int(s2, 0) runs inside the
\* except clause, so its ValueError leaves invoke.
ResolveToken(a) ==
    LET n   == PyInt0(a)
        sym == get_symbol_addr(a)
        n2  == PyInt0(sym.s2)
    IN  IF n.exc = "none"
        THEN [exc |-> "none", addr |-> n.val, calls |-> <<>>, prints |-> <<>>]
        ELSE IF sym.exc # "none"
        THEN [exc |-> sym.exc, addr |-> 0, calls |-> <<a>>, prints |-> <<>>]
        ELSE IF n2.exc # "none"
        THEN [exc |-> n2.exc, addr |-> 0, calls |-> <<a>>, prints |-> <<>>]
        ELSE [exc |-> "none", addr |-> n2.val, calls |-> <<a>>,
              prints |-> <<PrintCall(FmtLabel, <<sym.s1>>)>>]

\* invoke, lines 112-116: the print call for addr.
LookupPrint(pm, addr) ==
    LET entry == find_containing_procentry(pm, addr)
    IN  IF entry # <<>>
        THEN PrintCall(FmtFound, <<FormatInt(addr, 16),
                                   FormatInt(offset(entry[1], addr), 16),
                                   EntryStr(entry[1])>>)
        ELSE PrintCall(FmtNotFound, <<FormatInt(addr, 16), NoneStr>>)

\* invoke, lines 103-116: the loop over args; an exception ends it.
RECURSIVE RunLoop(_, _)
RunLoop(pm, as) ==
    IF as = <<>> THEN [exc |-> "none", out |-> <<>>, calls |-> <<>>]
    ELSE LET r == ResolveToken(Head(as))
             rest == RunLoop(pm, Tail(as))
         IN  IF r.exc # "none"
             THEN [exc |-> r.exc, out |-> <<>>, calls |-> r.calls]
             ELSE [exc |-> rest.exc,
                   out |-> r.prints \o <<LookupPrint(pm, r.addr)>> \o rest.out,
                   calls |-> r.calls \o rest.calls]

\* Faulty variant of InferiorUnusable: "and" in place of "or".
InferiorUnusable_both(proc) == ~proc.valid /\ proc.pid <= 0

\* invoke, line 96: the early return.
InferiorUnusable(proc) == ~proc.valid \/ proc.pid <= 0

----------------------------------------------------------------------------
\* Inputs.

\* Lines of /proc/<pid>/maps: [1,3), [2,0x15) overlapping it, a line whose start
\* is above its end, a line whose start is not hexadecimal, and a line whose
\* address field has no dash.
LineA == <<"1","-","3"," ","r"," ","a","\n">>
LineB == <<"2","-","1","5"," ","r"," ","b","\n">>
LineInv == <<"4","-","2"," ","r"," ","c","\n">>
LineBad == <<"g","-","3"," ","r"," ","d","\n">>
LineNoDash == <<"7"," ","r"," ","e","\n">>
LineSet == {LineA, LineB, LineInv, LineBad, LineNoDash}

TokHex == <<"0","x","2">>
TokenSet == {TokHex, SymFn, SymVar, SymExpr, SymUnknown}

Argvs == UNION {[1..n -> TokenSet] : n \in 0..MaxArgs}

Inferiors == [valid : BOOLEAN, pid : {0, 1}]

----------------------------------------------------------------------------
\* The state machine.  gdb runs one command at a time: at its prompt no invoke is
\* running (status "prompt"); Invoke runs the whole handler and leaves what it
\* did in the variables; Prompt is gdb returning to its prompt, where the frame
\* of invoke (cur_proc, f, args, from_tty) is gone and the next command's output
\* starts empty.  self.proc_map lives on in the command object.

Init ==
    /\ maps = <<>>
    /\ proc_map = <<>>
    /\ cur_proc = <<>>
    /\ f_lines = <<>>
    /\ args = <<>>
    /\ from_tty = FALSE
    /\ out = <<>>
    /\ sym_calls = <<>>
    /\ status = "prompt"

\* The inferior maps a region: a line appears in /proc/<pid>/maps.
Mmap ==
    \E line \in LineSet, i \in 0..Len(maps) :
        /\ Len(maps) < MaxLines
        /\ \A k \in 1..Len(maps) : maps[k] # line
        /\ maps' = SubSeq(maps, 1, i) \o <<line>> \o Drop(maps, i)
        /\ UNCHANGED <<proc_map, cur_proc, f_lines, args, from_tty, out, sym_calls, status>>

\* The inferior unmaps a region.
Munmap ==
    \E i \in 1..Len(maps) :
        /\ maps' = SubSeq(maps, 1, i - 1) \o Drop(maps, i)
        /\ UNCHANGED <<proc_map, cur_proc, f_lines, args, from_tty, out, sym_calls, status>>

\* CheckAddress.invoke(arg, from_tty), with gdb.selected_inferior() = proc and
\* gdb.string_to_argv(arg) = argv.  Lines 95-97: the early return.
InvokeNoInferior ==
    /\ status = "prompt"
    /\ \E proc \in Inferiors :
        /\ InferiorUnusable(proc)
        /\ cur_proc' = <<proc>>
    /\ status' = "returned"
    /\ UNCHANGED <<maps, proc_map, f_lines, args, from_tty, out, sym_calls>>

\* Lines 95-98 when read_procmaps raises: the exception leaves invoke.
InvokeReadFails ==
    LET rd == read_procmaps(proc_map, maps)
    IN  /\ status = "prompt"
        /\ rd.exc # "none"
        /\ \E proc \in Inferiors :
            /\ ~InferiorUnusable(proc)
            /\ cur_proc' = <<proc>>
        /\ f_lines' = <<maps>>
        /\ proc_map' = rd.proc_map
        /\ status' = rd.exc
        /\ UNCHANGED <<maps, args, from_tty, out, sym_calls>>

\* Lines 95-116 when read_procmaps returns.
InvokeLookup ==
    LET rd == read_procmaps(proc_map, maps)
    IN  /\ status = "prompt"
        /\ rd.exc = "none"
        /\ \E proc \in Inferiors :
            /\ ~InferiorUnusable(proc)
            /\ cur_proc' = <<proc>>
        /\ f_lines' = <<maps>>
        /\ proc_map' = rd.proc_map
        /\ \E argv \in Argvs, tty \in BOOLEAN :
            LET lp == RunLoop(rd.proc_map, argv)
            IN  /\ args' = argv
                /\ from_tty' = tty
                /\ IF Len(argv) = 0 /\ tty
                   THEN /\ out' = print_procmaps(rd.proc_map)
                        /\ sym_calls' = <<>>
                        /\ status' = "returned"
                   ELSE /\ out' = lp.out
                        /\ sym_calls' = lp.calls
                        /\ status' = IF lp.exc = "none" THEN "returned" ELSE lp.exc
        /\ UNCHANGED maps

Invoke == InvokeNoInferior \/ InvokeReadFails \/ InvokeLookup

\* gdb is back at its prompt.
Prompt ==
    /\ status # "prompt"
    /\ cur_proc' = <<>>
    /\ f_lines' = <<>>
    /\ args' = <<>>
    /\ from_tty' = FALSE
    /\ out' = <<>>
    /\ sym_calls' = <<>>
    /\ status' = "prompt"
    /\ UNCHANGED <<maps, proc_map>>

Next == Mmap \/ Munmap \/ Invoke \/ Prompt

Spec == Init /\ [][Next]_vars

----------------------------------------------------------------------------
\* Properties.

MaxAddr == 22   \* addresses 0..MaxAddr are queried

MinOf(S) == CHOOSE x \in S : \A y \in S : x <= y

IsResult(p) == p.fmt \in {FmtFound, FmtNotFound}

\* The lookup prints of the command: one per token the loop finished.
Results == SelectSeq(out, IsResult)

\* C1: for every address, find_containing_procentry returns the first entry of
\* the index, in listing order, with start <= addr < end, and None exactly when
\* no entry of the index has start <= addr < end.
FindReturnsFirstContaining ==
    \A addr \in 0..MaxAddr :
        LET hits == {i \in 1..Len(proc_map) :
                        proc_map[i].start <= addr /\ addr < proc_map[i].end}
            r == find_containing_procentry(proc_map, addr)
        IN  IF hits = {} THEN r = <<>> ELSE r = <<proc_map[MinOf(hits)]>>

\* C1 witness: an index that is not sorted by address holds two entries that both
\* contain address 2, and whereis printed the one listed first.
FirstOfTwoOverlappingPrinted ==
    /\ Len(proc_map) = 2
    /\ proc_map[1].start > proc_map[2].start
    /\ \A i \in 1..2 : proc_map[i].start <= 2 /\ 2 < proc_map[i].end
    /\ args = <<TokHex>>
    /\ Len(out) = 1
    /\ out[1].fmt = FmtFound
    /\ out[1].a[3] = EntryStr(proc_map[1])

\* C2: every entry of the index has start < end (a line with start >= end is
\* refused by the parse).
RegionsStartBelowEnd ==
    \A i \in 1..Len(proc_map) : proc_map[i].start < proc_map[i].end

\* A token that is a numeral, or that the symbol service resolves to a numeral.
Resolvable(a) ==
    \/ PyInt0(a).exc = "none"
    \/ /\ get_symbol_addr(a).exc = "none"
       /\ PyInt0(get_symbol_addr(a).s2).exc = "none"

\* C3: a token that is neither a numeral nor a resolvable symbol fails alone:
\* every token of the command that can be resolved gets its lookup print.
EveryResolvableTokenIsProcessed ==
    (f_lines # <<>> /\ Len(args) > 0)
        => Len(Results) = Cardinality({i \in 1..Len(args) : Resolvable(args[i])})

\* C4: when a line of the snapshot an invocation read fails to parse, the
\* invocation ends with that exception, the index is left as it was (no entry of
\* that snapshot enters it) and nothing is printed.
ParseFailureAborts ==
    [][(/\ f_lines' # <<>>
        /\ \E i \in 1..Len(f_lines'[1]) : ProcMapsStruct(f_lines'[1][i]).exc # "none")
       => (/\ proc_map' = proc_map
           /\ out' = <<>>
           /\ status' \in {"ValueError", "IndexError"})]_vars

\* C4 witness: an invocation read a snapshot whose second line is malformed; the
\* index still holds the one entry of an earlier snapshot.
FailedParseKeptOldIndex ==
    /\ status = "ValueError"
    /\ f_lines = <<(<<LineA, LineBad>>)>>
    /\ Len(proc_map) = 1
    /\ proc_map[1].line = Strip(LineB)
    /\ out = <<>>

\* C5: the print for an address that no entry contains carries nothing in the
\* place of the region line.
NotFoundPrintsNoRegion ==
    \A k \in 1..Len(out) :
        out[k].fmt = FmtNotFound => (Len(out[k].a) = 1 \/ out[k].a[2] = <<>>)

\* C6: an invocation with zero arguments that read the map prints one line per
\* entry of the index, in listing order, whatever from_tty is.
ZeroArgsPrintsSnapshot ==
    (status = "returned" /\ f_lines # <<>> /\ args = <<>>)
        => /\ Len(out) = Len(proc_map)
           /\ \A i \in 1..Len(proc_map) :
                  out[i] = PrintCall(FmtEntry, <<EntryStr(proc_map[i])>>)

\* C7: every lookup print of a command agrees with the lines /proc/<pid>/maps
\* held when that command read it: found in the first line that contains the
\* address, with the offset from that line's start, and not found when no line
\* contains it.
LookupUsesMapOfSameInvocation ==
    \A k \in 1..Len(out) :
        IsResult(out[k]) =>
            /\ f_lines # <<>>
            /\ LET lines == f_lines[1]
                   addr  == PyInt16(out[k].a[1]).val
                   hits  == {i \in 1..Len(lines) :
                                LET e == ProcMapsStruct(lines[i])
                                IN  e.exc = "none" /\ e.start <= addr /\ addr < e.end}
                   first == ProcMapsStruct(lines[MinOf(hits)])
               IN  IF hits = {}
                   THEN out[k].fmt = FmtNotFound
                   ELSE /\ out[k].fmt = FmtFound
                        /\ out[k].a[2] = FormatInt(addr - first.start, 16)
                        /\ out[k].a[3] = EntryStr(first)

\* C7 witness: a command found an address in the one-line map it read, and the
\* inferior has replaced that line by another since.
FoundAfterMapChanged ==
    /\ status = "returned"
    /\ f_lines = <<(<<LineB>>)>>
    /\ maps = <<LineA>>
    /\ \E k \in 1..Len(out) : out[k].fmt = FmtFound

\* C8: offset(r, addr) of an address inside an entry r is at least 0 and below
\* r.end - r.start, and so is the offset of every found print with respect to
\* the entry it prints.
OffsetWithinRegion ==
    /\ \A i \in 1..Len(proc_map), addr \in 0..MaxAddr :
           (proc_map[i].start <= addr /\ addr < proc_map[i].end)
               => /\ 0 <= offset(proc_map[i], addr)
                  /\ offset(proc_map[i], addr) < proc_map[i].end - proc_map[i].start
    /\ \A k \in 1..Len(out) :
           out[k].fmt = FmtFound =>
               \E i \in 1..Len(proc_map) :
                   /\ EntryStr(proc_map[i]) = out[k].a[3]
                   /\ PyInt16(out[k].a[2]).exc = "none"
                   /\ 0 <= PyInt16(out[k].a[2]).val
                   /\ PyInt16(out[k].a[2]).val < proc_map[i].end - proc_map[i].start

\* C8 witness: whereis printed offset 0x12 for address 20 (0x14) in [2, 0x15).
OffsetPrintedInsideRegion ==
    \E k \in 1..Len(out) :
        /\ out[k].fmt = FmtFound
        /\ out[k].a[1] = <<"1","4">>
        /\ out[k].a[2] = <<"1","2">>

\* C9: a token that parses as an integer literal is never handed to the symbol
\* service and its lookup print carries the parsed value; the symbol service is
\* called only with tokens of the command that fail numeral parsing.
NumeralsBypassSymbolService ==
    /\ \A i \in 1..Len(args) :
           PyInt0(args[i]).exc = "none" =>
               /\ \A k \in 1..Len(sym_calls) : sym_calls[k] # args[i]
               /\ i <= Len(Results) =>
                      Results[i].a[1] = FormatInt(PyInt0(args[i]).val, 16)
    /\ \A k \in 1..Len(sym_calls) :
           /\ PyInt0(sym_calls[k]).exc # "none"
           /\ \E i \in 1..Len(args) : args[i] = sym_calls[k]

\* C9 witness: the command "0x2 f": only f went to the symbol service, and the
\* print for 0x2 carries address 2.
NumeralThenSymbol ==
    /\ args = <<TokHex, SymFn>>
    /\ status = "returned"
    /\ sym_calls = <<SymFn>>
    /\ Len(Results) = 2
    /\ Results[1].a[1] = <<"2">>

\* C10: an invocation whose inferior is not valid or has pid <= 0 reads no map,
\* prints nothing, calls no symbol lookup and leaves self.proc_map as it was.
NoInferiorNoEffect ==
    [][(/\ cur_proc' # <<>>
        /\ (~cur_proc'[1].valid \/ cur_proc'[1].pid <= 0))
       => (/\ f_lines' = <<>>
           /\ out' = <<>>
           /\ sym_calls' = <<>>
           /\ status' = "returned"
           /\ proc_map' = proc_map)]_vars

\* C10 witness: an invocation on a valid inferior with pid 0 returned while the
\* map differs from the one the index was built from.
ReturnedEarlyWithStaleIndex ==
    /\ cur_proc = <<[valid |-> TRUE, pid |-> 0]>>
    /\ status = "returned"
    /\ Len(proc_map) = 1
    /\ maps = <<>>

====
